---- MODULE Spec2Model ----
(***************************************************************************)
(* Model of src/isolate.rs: the Isolate (owner of the V8 handle, the       *)
(* receiving end of the completion channel, the ntasks counter and the     *)
(* timeout deadline), IsolateState::send_to_js, the pre_dispatch           *)
(* trampoline and the main-thread event loop.                              *)
(*                                                                         *)
(* The main thread is followed by pc:                                      *)
(*   "ready"        host code between calls on the isolate                 *)
(*   "execute"      inside libdeno::deno_execute (script running)          *)
(*   "event_loop"   at the head of the while loop of event_loop            *)
(*   "recv_timeout" blocked in rx.recv_timeout(timeout)                    *)
(*   "respond"      inside libdeno::deno_respond called by complete_op or  *)
(*                  timeout (the script's receive callback is running)     *)
(*   "panicked"     the main thread unwound from a panic                   *)
(*   "aborted"      the process was aborted                                *)
(*   "dropped"      the Isolate has been dropped                           *)
(* Spawned tokio tasks are the entries of ops that are not synchronous.    *)
(***************************************************************************)
EXTENDS Integers, Sequences, FiniteSets, TLC

\* ---------------------------------------------------------------- bounds
MaxReqs == 2      \* requests issued by the script over the whole run
MaxTime == 2      \* last instant of the clock
MaxDelay == 1     \* longest duration a dispatch adds to now for a deadline
MaxTimeouts == 2  \* timeout actions performed over the whole run
NumCtx == 4       \* threads that each construct an Isolate

\* Buf values an Op may resolve to (Box<[u8]>, possibly empty).
Bufs == {<< >>, <<1, 2, 3>>}

\* Option<Instant>
None == [is_some |-> FALSE, due |-> 0]
Some(t) == [is_some |-> TRUE, due |-> t]

\* Result<Buf, DenoError> an Op resolves to.
Ok(b) == [ok |-> TRUE, buf |-> b]
Err == [ok |-> FALSE, buf |-> << >>]
OpResults == {Ok(b) : b \in Bufs} \cup {Err}

\* Texts libdeno::deno_last_exception may hand out after a failed script.
Exceptions == {"Error: assert error", "ReferenceError: x is not defined"}

\* What the host's dispatch function does to the public field timeout_due.
DueChoices ==
  {[op |-> "keep", d |-> 0], [op |-> "clear", d |-> 0]}
    \cup {[op |-> "set", d |-> d] : d \in 0..MaxDelay}

VARIABLES
  pc,           \* position of the thread that owns the Isolate
  ntasks,       \* Isolate.ntasks
  timeout_due,  \* Isolate.timeout_due
  rx,           \* TRUE while the Receiver (Isolate.rx) exists
  tx,           \* TRUE while IsolateState.tx holds Some(sender)
  chan,         \* messages in the mpsc channel, oldest first
  wait_until,   \* instant at which the pending recv_timeout expires, else 0
  ops,          \* requests dispatched so far; ops[r + 1] is request id r
  delivered,    \* calls of libdeno::deno_respond, oldest first
  pushed,       \* request ids sent on the channel, oldest first
  now,          \* Instant::now()
  armed,        \* when and with which duration timeout_due was last set
  exec_result,  \* the last execute call: what the engine reported, and
                \* what execute returned, held by the caller until its next
                \* call on the isolate
  ntimeouts,    \* timeout actions performed
  once,         \* state of DENO_INIT (std::sync::Once)
  init_calls,   \* calls of libdeno::deno_init made so far
  ctor          \* ctor[t]: how far thread t has come in Isolate::new

vars == <<pc, ntasks, timeout_due, rx, tx, chan, wait_until, ops, delivered,
          pushed, now, armed, exec_result, ntimeouts, once, init_calls, ctor>>

\* The variables of the one Isolate whose run is followed.
isolate_vars == <<pc, ntasks, timeout_due, rx, tx, chan, wait_until, ops,
                  delivered, pushed, now, armed, exec_result, ntimeouts>>

\* The process-wide variables of construction.
new_vars == <<once, init_calls, ctor>>

\* ------------------------------------------------------- pure functions

\* FromBuf with the length one short.
FromBuf_short(x) ==
  [alloc_ptr |-> 0, alloc_len |-> 0, data_ptr |-> x, data_len |-> Len(x) - 1]

\* impl From<Buf> for libdeno::deno_buf
FromBuf(x) ==
  [alloc_ptr |-> 0, alloc_len |-> 0, data_ptr |-> x, data_len |-> Len(x)]

\* The deno_buf built by Isolate::timeout.
dummy_buf ==
  [alloc_ptr |-> 0, alloc_len |-> 0, data_ptr |-> << >>, data_len |-> 0]

\* The bytes the engine reads from a deno_buf: data_len bytes at data_ptr.
Payload(db) == SubSeq(db.data_ptr, 1, db.data_len)

\* ntasks_increment that forgets to count up.
ntasks_increment_skipped(n) == n

ntasks_increment(n) == n + 1

\* ntasks_decrement that forgets to count down.
ntasks_decrement_skipped(n) == n

ntasks_decrement(n) == n - 1

\* pre_dispatch counting before it branches on is_sync.
NtasksAfterDispatch_always(n, is_sync) == ntasks_increment(n)

\* The counter after pre_dispatch: only the asynchronous branch counts.
NtasksAfterDispatch(n, is_sync) == IF is_sync THEN n ELSE ntasks_increment(n)

\* is_idle that looks at the deadline alone.
is_idle_deadline_only(n, due) == ~due.is_some

\* is_idle that looks at the counter alone.
is_idle_ntasks_only(n, due) == n = 0

is_idle(n, due) == n = 0 /\ ~due.is_some

\* A duration of zero whatever the deadline: the wait becomes a poll.
RecvTimeoutDuration_zero(due, t) == 0

\* The duration handed to recv_timeout.
RecvTimeoutDuration(due, t) == IF due > t THEN due - t ELSE 0

\* The synchronous branch answering whatever the buffer holds.
SyncReplies_always(buf) == TRUE

\* The synchronous branch of pre_dispatch answers only a non-empty buffer.
SyncReplies(buf) == Len(buf) # 0

\* The request id Isolate::timeout passes to deno_respond.
TimeoutReqId == 0 - 1

\* One call of libdeno::deno_respond as the engine sees it.
Reply(req_id, db, via) ==
  [req_id |-> req_id, buf |-> db, via |-> via]

\* Isolate::respond
respond(req_id, buf, via) == Append(delivered, Reply(req_id, FromBuf(buf), via))

\* send_to_js putting the pair at the front of the queue.
send_to_js_front(c, has_tx, has_rx, req_id, buf) ==
  IF ~has_tx THEN [panic |-> TRUE, chan |-> c]
  ELSE IF ~has_rx THEN [panic |-> TRUE, chan |-> c]
  ELSE [panic |-> FALSE, chan |-> <<(<<req_id, buf>>)>> \o c]

\* send_to_js dropping the result of tx.send instead of expecting it.
send_to_js_lossy(c, has_tx, has_rx, req_id, buf) ==
  IF ~has_tx THEN [panic |-> TRUE, chan |-> c]
  ELSE IF ~has_rx THEN [panic |-> FALSE, chan |-> c]
  ELSE [panic |-> FALSE, chan |-> Append(c, <<req_id, buf>>)]

\* IsolateState::send_to_js: the channel after the call, or a panic when
\* the sender is gone (assert) or the receiver is gone (expect on send).
send_to_js(c, has_tx, has_rx, req_id, buf) ==
  IF ~has_tx THEN [panic |-> TRUE, chan |-> c]
  ELSE IF ~has_rx THEN [panic |-> TRUE, chan |-> c]
  ELSE [panic |-> FALSE, chan |-> Append(c, <<req_id, buf>>)]

\* The message rx.recv() / rx.recv_timeout() hands out.
Recv(c) == Head(c)

\* Result<(), DenoException>
ExecOk == [ok |-> TRUE, err |-> ""]
ExecErr(e) == [ok |-> FALSE, err |-> e]

\* execute testing the flag the wrong way round.
ExecuteResult_inverted(r, last_exception) ==
  IF r # 0 THEN ExecErr(last_exception) ELSE ExecOk

\* What execute returns when deno_execute returned r and the engine's last
\* exception is last_exception.
ExecuteResult(r, last_exception) ==
  IF r = 0 THEN ExecErr(last_exception) ELSE ExecOk

\* A constructor that leaves the sender out of the shared state.
TxAfterNew_none == FALSE

\* Isolate::new stores the sender: tx: Mutex::new(Some(tx)).
TxAfterNew == TRUE

\* The dispatch function's write to isolate.timeout_due.
ApplyDue(due, choice, t) ==
  IF choice.op = "keep" THEN due
  ELSE IF choice.op = "clear" THEN None
  ELSE Some(t + choice.d)

\* ------------------------------------------------------------------ Init

\* Isolate::new
Init ==
  /\ pc = "ready"
  /\ ntasks = 0
  /\ timeout_due = None
  /\ rx = TRUE
  /\ tx = TxAfterNew
  /\ chan = << >>
  /\ wait_until = 0
  /\ ops = << >>
  /\ delivered = << >>
  /\ pushed = << >>
  /\ now = 0
  /\ armed = [at |-> 0, d |-> 0]
  /\ exec_result = [phase |-> "none", r |-> 1, last_exception |-> "",
                    ret |-> ExecOk]
  /\ ntimeouts = 0
  /\ once = "complete"
  /\ init_calls = 1
  /\ ctor = [t \in 1..NumCtx |-> "done"]

\* --------------------------------------------------------------- actions

\* Isolate::execute up to the call of libdeno::deno_execute.
execute ==
  /\ pc = "ready"
  /\ pc' = "execute"
  /\ exec_result' = [phase |-> "running", r |-> 1, last_exception |-> "",
                     ret |-> ExecOk]
  /\ UNCHANGED <<ntasks, timeout_due, rx, tx, chan, wait_until, ops,
                 delivered, pushed, now, armed, ntimeouts>>
  /\ UNCHANGED new_vars

\* deno_execute returns r, with e the engine's last exception: execute maps
\* them to Ok(()) or Err(exception).
execute_return(r, e) ==
  /\ pc = "execute"
  /\ pc' = "ready"
  /\ exec_result' = [phase |-> "returned", r |-> r, last_exception |-> e,
                     ret |-> ExecuteResult(r, e)]
  /\ UNCHANGED <<ntasks, timeout_due, rx, tx, chan, wait_until, ops,
                 delivered, pushed, now, armed, ntimeouts>>
  /\ UNCHANGED new_vars

\* The script calls libdeno.send: the engine calls pre_dispatch with the
\* next request id; dispatch classifies it and builds the Op, which will
\* resolve to res.
pre_dispatch(is_sync, res, choice) ==
  /\ pc \in {"execute", "respond"}
  /\ Len(ops) < MaxReqs
  /\ LET req_id == Len(ops)
         due == ApplyDue(timeout_due, choice, now)
     IN
       /\ timeout_due' = due
       /\ armed' = IF choice.op = "set" THEN [at |-> now, d |-> choice.d]
                   ELSE IF choice.op = "clear" THEN [at |-> 0, d |-> 0]
                   ELSE armed
       /\ IF is_sync
          THEN \* tokio_util::block_on(op).unwrap()
            IF ~res.ok
            THEN /\ pc' \in {"panicked", "aborted"}
                 /\ ops' = Append(ops, [is_sync |-> TRUE, res |-> res,
                                        state |-> "panicked"])
                 /\ UNCHANGED <<ntasks, delivered>>
            ELSE /\ ops' = Append(ops, [is_sync |-> TRUE, res |-> res,
                                        state |-> "done"])
                 /\ delivered' = IF SyncReplies(res.buf)
                                 THEN respond(req_id, res.buf, "sync")
                                 ELSE delivered
                 /\ ntasks' = NtasksAfterDispatch(ntasks, TRUE)
                 /\ UNCHANGED pc
          ELSE \* ntasks_increment (with its assertion), tokio::spawn(task)
            IF ntasks < 0
            THEN /\ pc' \in {"panicked", "aborted"}
                 /\ UNCHANGED <<ntasks, ops, delivered>>
            ELSE /\ ntasks' = NtasksAfterDispatch(ntasks, FALSE)
                 /\ ops' = Append(ops, [is_sync |-> FALSE, res |-> res,
                                        state |-> "running"])
                 /\ UNCHANGED <<pc, delivered>>
  /\ UNCHANGED <<rx, tx, chan, wait_until, pushed, now, exec_result,
                 ntimeouts>>
  /\ UNCHANGED new_vars

\* A spawned task runs to its end on a worker thread: the Op resolves and,
\* when it resolved to a buffer, and_then calls send_to_js; map_err drops
\* an error.
task_resolve(r) ==
  /\ pc # "aborted"
  /\ r \in 1..Len(ops)
  /\ ~ops[r].is_sync
  /\ ops[r].state = "running"
  /\ IF ops[r].res.ok
     THEN LET s == send_to_js(chan, tx, rx, r - 1, ops[r].res.buf) IN
            /\ chan' = s.chan
            /\ ops' = [ops EXCEPT ![r].state =
                         IF s.panic THEN "panicked" ELSE "sent"]
            /\ pushed' = IF s.panic THEN pushed ELSE Append(pushed, r - 1)
     ELSE /\ ops' = [ops EXCEPT ![r].state = "failed"]
          /\ UNCHANGED <<chan, pushed>>
  /\ UNCHANGED <<pc, ntasks, timeout_due, rx, tx, wait_until, delivered,
                 now, armed, exec_result, ntimeouts>>
  /\ UNCHANGED new_vars

\* complete_op calling respond and leaving the count for later.
complete_op_late_decrement(m) ==
  /\ ntasks' = ntasks
  /\ delivered' = respond(m[1], m[2], "async")
  /\ pc' = "respond"

\* Isolate::complete_op applied to the message m taken from the channel:
\* ntasks_decrement with its assertion, then respond.
complete_op(m) ==
  LET n == ntasks_decrement(ntasks) IN
    /\ ntasks' = n
    /\ IF n >= 0
       THEN /\ delivered' = respond(m[1], m[2], "async")
            /\ pc' = "respond"
       ELSE /\ delivered' = delivered
            /\ pc' = "panicked"

\* The host calls event_loop; the Result of an earlier execute has been
\* consumed by then.
event_loop ==
  /\ pc = "ready"
  /\ pc' = "event_loop"
  /\ exec_result' = [phase |-> "none", r |-> 1, last_exception |-> "",
                     ret |-> ExecOk]
  /\ UNCHANGED <<ntasks, timeout_due, rx, tx, chan, wait_until, ops,
                 delivered, pushed, now, armed, ntimeouts>>
  /\ UNCHANGED new_vars

\* while !self.is_idle() fails: event_loop returns.
event_loop_return ==
  /\ pc = "event_loop"
  /\ is_idle(ntasks, timeout_due)
  /\ pc' = "ready"
  /\ UNCHANGED <<ntasks, timeout_due, rx, tx, chan, wait_until, ops,
                 delivered, pushed, now, armed, exec_result, ntimeouts>>
  /\ UNCHANGED new_vars

\* No deadline: rx.recv() blocks until a message is there (or fails when
\* the sender is gone and the channel is empty).
event_loop_recv ==
  /\ pc = "event_loop"
  /\ ~is_idle(ntasks, timeout_due)
  /\ ~timeout_due.is_some
  /\ chan # << >> \/ ~tx
  /\ IF chan # << >>
     THEN /\ complete_op(Recv(chan))
          /\ chan' = Tail(chan)
     ELSE /\ pc' = "panicked"
          /\ UNCHANGED <<ntasks, chan, delivered>>
  /\ UNCHANGED <<timeout_due, rx, tx, wait_until, ops, pushed, now, armed,
                 exec_result, ntimeouts>>
  /\ UNCHANGED new_vars

\* A deadline is set: compute the timeout and enter rx.recv_timeout.
event_loop_wait ==
  /\ pc = "event_loop"
  /\ ~is_idle(ntasks, timeout_due)
  /\ timeout_due.is_some
  /\ wait_until' = now + RecvTimeoutDuration(timeout_due.due, now)
  /\ pc' = "recv_timeout"
  /\ UNCHANGED <<ntasks, timeout_due, rx, tx, chan, ops, delivered, pushed,
                 now, armed, exec_result, ntimeouts>>
  /\ UNCHANGED new_vars

\* recv_timeout returns Ok((req_id, buf)) (or Disconnected when the sender
\* is gone and the channel is empty).
recv_timeout_ok ==
  /\ pc = "recv_timeout"
  /\ chan # << >> \/ ~tx
  /\ IF chan # << >>
     THEN /\ complete_op(Recv(chan))
          /\ chan' = Tail(chan)
     ELSE /\ pc' = "panicked"
          /\ UNCHANGED <<ntasks, chan, delivered>>
  /\ wait_until' = 0
  /\ UNCHANGED <<timeout_due, rx, tx, ops, pushed, now, armed, exec_result,
                 ntimeouts>>
  /\ UNCHANGED new_vars

\* timeout going through complete_op's bookkeeping.
timeout_as_completion ==
  /\ delivered' = Append(delivered, Reply(TimeoutReqId, dummy_buf, "timeout"))
  /\ ntasks' = ntasks_decrement(ntasks)
  /\ UNCHANGED <<timeout_due, chan>>

\* timeout taking the deadline away once it has fired.
timeout_clears_deadline ==
  /\ delivered' = Append(delivered, Reply(TimeoutReqId, dummy_buf, "timeout"))
  /\ timeout_due' = None
  /\ UNCHANGED <<ntasks, chan>>

\* Isolate::timeout: deno_respond with -1 and the dummy buffer, and nothing
\* else.
timeout ==
  /\ delivered' = Append(delivered, Reply(TimeoutReqId, dummy_buf, "timeout"))
  /\ UNCHANGED <<ntasks, timeout_due, chan>>

\* recv_timeout returns Err(Timeout): Isolate::timeout.
recv_timeout_expired ==
  /\ pc = "recv_timeout"
  /\ chan = << >>
  /\ tx
  /\ now >= wait_until
  /\ ntimeouts < MaxTimeouts
  /\ ntimeouts' = ntimeouts + 1
  /\ timeout
  /\ pc' = "respond"
  /\ wait_until' = 0
  /\ UNCHANGED <<rx, tx, ops, pushed, now, armed, exec_result>>
  /\ UNCHANGED new_vars

\* deno_respond returns to complete_op or timeout, and the loop goes on.
respond_return ==
  /\ pc = "respond"
  /\ pc' = "event_loop"
  /\ UNCHANGED <<ntasks, timeout_due, rx, tx, chan, wait_until, ops,
                 delivered, pushed, now, armed, exec_result, ntimeouts>>
  /\ UNCHANGED new_vars

\* impl Drop for Isolate: the handle is deleted and the fields are dropped,
\* the Receiver with the messages still queued among them.
drop ==
  /\ pc \in {"ready", "panicked"}
  /\ rx
  /\ pc' = IF pc = "ready" THEN "dropped" ELSE pc
  /\ rx' = FALSE
  /\ chan' = << >>
  /\ UNCHANGED <<ntasks, timeout_due, tx, wait_until, ops, delivered, pushed,
                 now, armed, exec_result, ntimeouts>>
  /\ UNCHANGED new_vars

\* Time passes.
tick ==
  /\ pc # "aborted"
  /\ now < MaxTime
  /\ now' = now + 1
  /\ UNCHANGED <<pc, ntasks, timeout_due, rx, tx, chan, wait_until, ops,
                 delivered, pushed, armed, exec_result, ntimeouts>>
  /\ UNCHANGED new_vars

Next ==
  \/ execute
  \/ \E e \in Exceptions : execute_return(0, e)
  \/ execute_return(1, "")
  \/ \E is_sync \in BOOLEAN, res \in OpResults, choice \in DueChoices :
       pre_dispatch(is_sync, res, choice)
  \/ \E r \in 1..MaxReqs : task_resolve(r)
  \/ event_loop
  \/ event_loop_return
  \/ event_loop_recv
  \/ event_loop_wait
  \/ recv_timeout_ok
  \/ recv_timeout_expired
  \/ respond_return
  \/ drop
  \/ tick

Spec == Init /\ [][Next]_vars

\* The tokio pool runs every spawned task, time passes, and the thread that
\* is inside event_loop goes on whenever it can. Nothing obliges the host to
\* call execute, event_loop or drop, nor the script to issue a request.
Fairness ==
  /\ \A r \in 1..MaxReqs : WF_vars(task_resolve(r))
  /\ WF_vars(tick)
  /\ WF_vars(event_loop_return)
  /\ WF_vars(event_loop_recv)
  /\ WF_vars(event_loop_wait)
  /\ WF_vars(recv_timeout_ok)
  /\ WF_vars(recv_timeout_expired)
  /\ WF_vars(respond_return)

FairSpec == Spec /\ Fairness

\* ---------------------------------------------------------- construction

\* Before any Isolate::new: DENO_INIT is ONCE_INIT and no thread has started.
InitNew ==
  /\ pc = "ready"
  /\ ntasks = 0
  /\ timeout_due = None
  /\ rx = TRUE
  /\ tx = TxAfterNew
  /\ chan = << >>
  /\ wait_until = 0
  /\ ops = << >>
  /\ delivered = << >>
  /\ pushed = << >>
  /\ now = 0
  /\ armed = [at |-> 0, d |-> 0]
  /\ exec_result = [phase |-> "none", r |-> 1, last_exception |-> "",
                    ret |-> ExecOk]
  /\ ntimeouts = 0
  /\ once = "incomplete"
  /\ init_calls = 0
  /\ ctor = [t \in 1..NumCtx |-> "start"]

\* call_once letting a caller through without waiting for a running
\* initialisation to end.
OncePasses_early(state) == state \in {"running", "complete"}

\* Once::call_once returns without running the closure when the
\* initialisation has completed.
OncePasses(state) == state = "complete"

\* A plain flag tested without synchronisation: whoever has not seen the
\* initialisation completed runs it.
OnceRuns_unsynchronised(state) == state \in {"incomplete", "running"}

\* Once::call_once runs the closure in the first caller only; callers that
\* find it running block until it has completed.
OnceRuns(state) == state = "incomplete"

\* Thread t enters Isolate::new and calls DENO_INIT.call_once.
new_call_once(t) ==
  /\ ctor[t] \in {"start", "blocked"}
  /\ IF OnceRuns(once)
     THEN /\ once' = "running"
          /\ ctor' = [ctor EXCEPT ![t] = "deno_init"]
     ELSE IF OncePasses(once)
     THEN /\ ctor' = [ctor EXCEPT ![t] = "inited"]
          /\ UNCHANGED once
     ELSE /\ ctor[t] = "start"
          /\ ctor' = [ctor EXCEPT ![t] = "blocked"]
          /\ UNCHANGED once
  /\ UNCHANGED init_calls
  /\ UNCHANGED isolate_vars

\* The closure runs libdeno::deno_init and the Once becomes complete.
new_deno_init(t) ==
  /\ ctor[t] = "deno_init"
  /\ init_calls' = init_calls + 1
  /\ once' = "complete"
  /\ ctor' = [ctor EXCEPT ![t] = "inited"]
  /\ UNCHANGED isolate_vars

\* libdeno::deno_new creates the native handle; the rest of new follows.
new_deno_new(t) ==
  /\ ctor[t] = "inited"
  /\ ctor' = [ctor EXCEPT ![t] = "done"]
  /\ UNCHANGED <<once, init_calls>>
  /\ UNCHANGED isolate_vars

NextNew ==
  \/ \E t \in 1..NumCtx : new_call_once(t)
  \/ \E t \in 1..NumCtx : new_deno_init(t)
  \/ \E t \in 1..NumCtx : new_deno_new(t)

SpecNew == InitNew /\ [][NextNew]_vars

\* ------------------------------------------------------------ properties

\* Indices in ops of the asynchronous operations spawned so far.
AsyncOps == {r \in 1..Len(ops) : ~ops[r].is_sync}

\* Positions in delivered of the replies for request id q sent by way v.
RepliesFor(q, v) ==
  {i \in 1..Len(delivered) :
     delivered[i].req_id = q /\ delivered[i].via = v}

\* The completions the event loop has delivered, oldest first.
Completions == SelectSeq(delivered, LAMBDA e : e.via = "async")

\* Spawned operations whose reply has not been delivered to the engine.
Undelivered == {r \in AsyncOps : RepliesFor(r - 1, "async") = {}}

\* Every spawned task has run to its end and the channel is drained.
Quiescent ==
  /\ \A r \in AsyncOps : ops[r].state # "running"
  /\ chan = << >>

\* C1: once the N operations spawned have all resolved, to a buffer or to
\* an error, and the event loop has taken everything off the channel, it
\* has delivered exactly N completions and the counter is 0; the counter
\* is never negative.
C1_AllCompletionsDelivered ==
  /\ ntasks >= 0
  /\ (pc \in {"event_loop", "recv_timeout"} /\ Quiescent)
       => (Len(Completions) = Cardinality(AsyncOps) /\ ntasks = 0)

\* C2: ntasks is never negative and equals the number of asynchronous
\* operations spawned whose reply has not yet been delivered.
C2_CounterInvariant ==
  /\ ntasks >= 0
  /\ ntasks = Cardinality(Undelivered)

\* Two operations were spawned, one has been delivered and the script is
\* handling its reply, the other is still outstanding.
C2_Witness ==
  /\ Cardinality(AsyncOps) = 2
  /\ ntasks = 1
  /\ Len(Completions) = 1
  /\ pc = "respond"

\* C3: the completions reach the engine in the order in which send_to_js
\* pushed them: the request ids delivered are a prefix of those pushed.
C3_ChannelOrder ==
  /\ Len(Completions) <= Len(pushed)
  /\ \A i \in 1..Len(Completions) : Completions[i].req_id = pushed[i]

\* A (id 0) was dispatched before B (id 1), B was pushed first, and the
\* engine got B's reply first.
C3_Witness ==
  /\ pushed = <<1, 0>>
  /\ Len(Completions) = 2
  /\ Completions[1].req_id = 1
  /\ Completions[2].req_id = 0

\* C4: a step in which a synchronous request is dispatched leaves ntasks
\* and the channel as they were.
C4_SyncFrame ==
  [][(Len(ops') = Len(ops) + 1 /\ ops'[Len(ops')].is_sync)
       => (ntasks' = ntasks /\ chan' = chan /\ pushed' = pushed)]_vars

\* A synchronous request was dispatched while an operation was outstanding
\* and its completion was waiting in the channel.
C4_Witness ==
  /\ Len(ops) = 2
  /\ ops[2].is_sync
  /\ ~ops[1].is_sync
  /\ ntasks = 1
  /\ Len(chan) = 1

\* A synchronous request whose operation resolved to a non-empty buffer.
SyncWithBuf(o) == o.is_sync /\ o.res.ok /\ o.res.buf # << >>

\* C5: a synchronous request r resolving to a non-empty buffer b gets
\* exactly one reply, it carries r and b unchanged, and it is delivered in
\* the very step that dispatches r, which stays where it was in the script.
C5_SyncRoundTrip ==
  /\ [](\A r \in 1..Len(ops) :
          SyncWithBuf(ops[r]) =>
            /\ Cardinality({i \in 1..Len(delivered) :
                              delivered[i].req_id = r - 1}) = 1
            /\ \A i \in RepliesFor(r - 1, "sync") :
                 Payload(delivered[i].buf) = ops[r].res.buf)
  /\ [][(Len(ops') = Len(ops) + 1 /\ SyncWithBuf(ops'[Len(ops')]))
          => /\ Len(delivered') = Len(delivered) + 1
             /\ SubSeq(delivered', 1, Len(delivered)) = delivered
             /\ delivered'[Len(delivered')].req_id = Len(ops)
             /\ delivered'[Len(delivered')].via = "sync"
             /\ Payload(delivered'[Len(delivered')].buf)
                  = ops'[Len(ops')].res.buf
             /\ pc' = pc
             /\ chan' = chan]_vars

\* The request [4,5,6] of the test got [1,2,3] back inside execute.
C5_Witness ==
  /\ pc = "execute"
  /\ Len(ops) = 1
  /\ SyncWithBuf(ops[1])
  /\ Len(delivered) = 1
  /\ delivered[1].req_id = 0
  /\ Payload(delivered[1].buf) = <<1, 2, 3>>

\* C6: event_loop returns only from the head of its loop, only when ntasks
\* is 0 and no deadline is set, and when it is at the head in that state
\* the only thing it does is return: nothing is received or delivered.
C6_ReturnsExactlyWhenIdle ==
  [][/\ (pc \in {"event_loop", "recv_timeout", "respond"} /\ pc' = "ready")
          => (pc = "event_loop" /\ ntasks = 0 /\ ~timeout_due.is_some)
     /\ (pc = "event_loop" /\ ntasks = 0 /\ ~timeout_due.is_some)
          => /\ pc' \in {"event_loop", "ready"}
             /\ UNCHANGED <<ntasks, chan, delivered, timeout_due>>]_vars

\* event_loop has run, delivered a completion and returned idle.
C6_Witness ==
  /\ pc = "ready"
  /\ Len(Completions) = 1
  /\ ntasks = 0
  /\ ~timeout_due.is_some
  /\ rx

\* C7: the timeout action runs no earlier than the deadline, that is at
\* least armed.d after the instant armed.at at which the deadline was set,
\* and the reply it delivers has request id -1 and an empty payload.
C7_TimeoutNotEarly ==
  [][(ntimeouts' = ntimeouts + 1)
       => /\ now >= armed.at + armed.d
          /\ now >= timeout_due.due
          /\ Len(delivered') = Len(delivered) + 1
          /\ delivered'[Len(delivered')].req_id = -1
          /\ Payload(delivered'[Len(delivered')].buf) = << >>
          /\ delivered'[Len(delivered')].buf.data_len = 0]_vars

\* A deadline one unit ahead was set with nothing outstanding, and the
\* timeout action has run.
C7_Witness ==
  /\ ntimeouts = 1
  /\ AsyncOps = {}
  /\ ntasks = 0
  /\ armed.d = 1
  /\ timeout_due.is_some
  /\ pc = "respond"
  /\ delivered[Len(delivered)].via = "timeout"

\* C8: an asynchronous operation that resolved to an error has had a reply
\* pushed onto the channel for its request id.
C8_AsyncErrorReplied ==
  \A r \in AsyncOps :
    (ops[r].state # "running" /\ ~ops[r].res.ok)
      => \E i \in 1..Len(pushed) : pushed[i] = r - 1

\* C9: a synchronous operation that resolved to an error leaves the main
\* thread running and has been answered with a reply for its request id.
C9_SyncErrorAsData ==
  \A r \in 1..Len(ops) :
    (ops[r].is_sync /\ ~ops[r].res.ok)
      => /\ pc \notin {"panicked", "aborted"}
         /\ \E i \in 1..Len(delivered) : delivered[i].req_id = r - 1

\* C10: a task that calls send_to_js when the sender or the receiver is
\* gone panics, and the channel holds nothing more than before.
C10_SendAfterTeardown ==
  [][\A r \in 1..Len(ops) :
       (/\ ~ops[r].is_sync
        /\ ops[r].state = "running"
        /\ ops[r].res.ok
        /\ ops'[r].state # "running"
        /\ (~tx \/ ~rx))
         => /\ ops'[r].state = "panicked"
            /\ chan' = chan
            /\ pushed' = pushed]_vars

\* The Isolate was dropped with an operation in flight, which then resolved.
C10_Witness ==
  /\ pc = "dropped"
  /\ ~rx
  /\ \E r \in AsyncOps : ops[r].state = "panicked"
  /\ chan = << >>

\* event_loop has been called after an execute that spawned two operations
\* and set no deadline; the script can issue no further request.
TwoSpawned ==
  /\ pc = "event_loop"
  /\ Len(ops) = 2
  /\ AsyncOps = {1, 2}
  /\ delivered = << >>
  /\ ~timeout_due.is_some

\* C11: from there, with the workers scheduled fairly, event_loop delivers
\* the replies of both operations and returns idle.
C11_BothDeliveredThenIdle ==
  TwoSpawned ~> (pc = "ready" /\ Len(Completions) = 2 /\ ntasks = 0)

\* The same for two operations that both resolve to a buffer.
C11_BuffersDeliveredThenIdle ==
  (TwoSpawned /\ \A r \in AsyncOps : ops[r].res.ok)
    ~> (pc = "ready" /\ Len(Completions) = 2 /\ ntasks = 0)

C13_InitOnceBeforeHandle ==
  /\ init_calls <= 1
  /\ \A t \in 1..NumCtx :
       ctor[t] \in {"inited", "done"} => (once = "complete" /\ init_calls = 1)
  /\ Cardinality({t \in 1..NumCtx : ctor[t] = "deno_init"}) <= 1

\* Several constructions raced: two threads have their handle after the
\* single deno_init, and a third, which found the initialisation running,
\* has not yet gone on.
C13_Witness ==
  /\ init_calls = 1
  /\ Cardinality({t \in 1..NumCtx : ctor[t] = "done"}) >= 2
  /\ \E t \in 1..NumCtx : ctor[t] = "blocked"

\* C14: the timeout action hands the engine exactly one reply, with request
\* id -1 and no payload, and leaves ntasks and the channel as they were.
C14_TimeoutFrame ==
  [][(ntimeouts' = ntimeouts + 1)
       => /\ ntasks' = ntasks
          /\ chan' = chan
          /\ pushed' = pushed
          /\ delivered' =
               Append(delivered,
                      [req_id |-> -1,
                       buf |-> [alloc_ptr |-> 0, alloc_len |-> 0,
                                data_ptr |-> << >>, data_len |-> 0],
                       via |-> "timeout"])]_vars

\* The deadline passed while an operation was outstanding: the engine got
\* the timeout reply and the operation is still counted.
C14_Witness ==
  /\ ntimeouts = 1
  /\ ntasks = 1
  /\ Len(delivered) = 1
  /\ delivered[1].via = "timeout"
  /\ delivered[1].req_id = -1

\* C16: a deadline stays set until a dispatch of the script changes it: the
\* timeout action and the return from the reply handler leave it alone, and
\* while it is set event_loop does not return, whatever ntasks is.
C16_DeadlineKeepsLoopBusy ==
  [][/\ (ntimeouts' = ntimeouts + 1)
          => (timeout_due.is_some /\ timeout_due' = timeout_due)
     /\ (timeout_due.is_some /\ timeout_due' # timeout_due)
          => (pc \in {"execute", "respond"} /\ Len(ops') = Len(ops) + 1)
     /\ (timeout_due.is_some
           /\ pc \in {"event_loop", "recv_timeout", "respond"})
          => pc' # "ready"]_vars

\* One request set a deadline and nothing ever cleared it: with no
\* operation outstanding the timeout action has run a second time.
C16_Witness ==
  /\ ntimeouts = 2
  /\ ntasks = 0
  /\ Len(ops) = 1
  /\ ops[1].is_sync
  /\ timeout_due.is_some
  /\ pc = "respond"

\* A spawned task ends in this step.
TaskEnds == \E r \in 1..Len(ops) :
  ~ops[r].is_sync /\ ops[r].state = "running" /\ ops'[r].state # "running"

\* C15: the step that delivers a completion is a step of the thread inside
\* event_loop; it takes the oldest message of the channel, and when the
\* engine's reply handler starts ntasks is already one less. A step in
\* which a task ends delivers nothing and leaves ntasks, the deadline and
\* the owning thread alone: at most it appends to the channel.
C15_DecrementThenDeliver ==
  [][/\ (Len(delivered') = Len(delivered) + 1
           /\ delivered'[Len(delivered')].via = "async")
          => /\ pc \in {"event_loop", "recv_timeout"}
             /\ pc' = "respond"
             /\ ntasks' = ntasks - 1
             /\ ntasks' >= 0
             /\ chan # << >>
             /\ chan' = Tail(chan)
             /\ delivered'[Len(delivered')].req_id = Head(chan)[1]
             /\ Payload(delivered'[Len(delivered')].buf) = Head(chan)[2]
     /\ TaskEnds
          => /\ UNCHANGED <<delivered, ntasks, timeout_due, pc>>
             /\ chan' = chan \/ (Len(chan') = Len(chan) + 1
                                   /\ SubSeq(chan', 1, Len(chan)) = chan)
     /\ delivered' # delivered
          => pc \in {"execute", "respond", "event_loop", "recv_timeout"}]_vars

\* The only operation spawned has been completed: the reply handler runs
\* and the counter is back at 0.
C15_Witness ==
  /\ pc = "respond"
  /\ Len(ops) = 1
  /\ ops[1].state = "sent"
  /\ Len(delivered) = 1
  /\ delivered[1].via = "async"
  /\ ntasks = 0

\* Request ids of the messages waiting in the channel.
Queued == {chan[i][1] : i \in 1..Len(chan)}

\* C17: a synchronous request has a reply if and only if its buffer is not
\* empty; an asynchronous operation whose buffer, empty or not, has been
\* taken off the channel has exactly one reply, carrying that buffer, and
\* delivering an empty one counts ntasks down like any other.
C17_EmptyBuffer ==
  /\ [](\A r \in 1..Len(ops) :
          /\ (ops[r].is_sync /\ ops[r].state = "done")
               => /\ (RepliesFor(r - 1, "sync") # {}) <=> (ops[r].res.buf # << >>)
                  /\ Cardinality(RepliesFor(r - 1, "sync")) <= 1
                  /\ RepliesFor(r - 1, "async") = {}
          /\ (~ops[r].is_sync /\ ops[r].state = "sent" /\ rx
                /\ r - 1 \notin Queued)
               => /\ Cardinality(RepliesFor(r - 1, "async")) = 1
                  /\ \A i \in RepliesFor(r - 1, "async") :
                       Payload(delivered[i].buf) = ops[r].res.buf
                  /\ RepliesFor(r - 1, "sync") = {})
  /\ [][(Len(delivered') = Len(delivered) + 1
          /\ delivered'[Len(delivered')].via = "async"
          /\ delivered'[Len(delivered')].buf.data_len = 0)
         => ntasks' = ntasks - 1]_vars

\* An asynchronous operation resolved to an empty buffer and the engine got
\* a reply for it; the synchronous request that followed resolved to an
\* empty buffer too and got none.
C17_Witness ==
  /\ Len(ops) = 2
  /\ ~ops[1].is_sync /\ ops[1].res = [ok |-> TRUE, buf |-> << >>]
  /\ ops[2].is_sync /\ ops[2].res = [ok |-> TRUE, buf |-> << >>]
  /\ Len(delivered) = 1
  /\ delivered[1].req_id = 0
  /\ delivered[1].via = "async"
  /\ delivered[1].buf.data_len = 0
  /\ ntasks = 0

\* Spawned operations that have pushed no completion.
NotPushed ==
  {r \in AsyncOps : ops[r].state \in {"running", "failed", "panicked"}}

\* C18: while the Isolate exists the channel holds at most ntasks
\* completions, ntasks being the completions queued plus the operations
\* that have pushed none; so a completion is only ever received with
\* ntasks >= 1 and ntasks never goes below 0.
C18_QueuedAtMostCounted ==
  /\ ntasks >= 0
  /\ rx => /\ Len(chan) <= ntasks
           /\ ntasks = Len(chan) + Cardinality(NotPushed)
           /\ chan # << >> => ntasks >= 1

\* Two operations are outstanding: the completion of one waits in the
\* channel for the event loop, the other is still running.
C18_Witness ==
  /\ pc = "event_loop"
  /\ ntasks = 2
  /\ Len(chan) = 1
  /\ Cardinality(NotPushed) = 1

\* C19: while the Isolate exists the shared state holds the sender, a task
\* panics in send_to_js only when the receiver is gone, and the thread
\* inside event_loop never takes the failed-recv branches: from the loop it
\* goes only to the reply handler or back to the host.
C19_SenderPresent ==
  /\ [](/\ rx => tx
        /\ \A r \in AsyncOps : ops[r].state = "panicked" => ~rx)
  /\ [][(pc \in {"event_loop", "recv_timeout"})
         => (pc' \in {"event_loop", "recv_timeout", "respond", "ready"})]_vars

\* With the sender in place a task has pushed its completion, the event
\* loop has received it and is waiting in recv_timeout for the next one.
C19_Witness ==
  /\ pc = "recv_timeout"
  /\ tx /\ rx
  /\ Len(pushed) = 1
  /\ Len(Completions) = 1
  /\ ntasks = 1

\* C20: when the script, inside the reply handler the event loop called,
\* issues an asynchronous request, ntasks at that moment counts exactly the
\* operations not yet delivered (the one being handled is no longer among
\* them) and the new one is added to it; and event_loop returns only when
\* every operation spawned, those spawned from a reply handler included,
\* has had its reply delivered.
C20_ReentrantDispatch ==
  [][/\ (pc = "respond" /\ Len(ops') = Len(ops) + 1
           /\ ~ops'[Len(ops')].is_sync)
          => /\ ntasks >= 0
             /\ ntasks = Cardinality(Undelivered)
             /\ ntasks' = ntasks + 1
             /\ Len(delivered') = Len(delivered)
             /\ Cardinality({r \in 1..Len(ops') : ~ops'[r].is_sync
                               /\ \A i \in 1..Len(delivered') :
                                    ~(delivered'[i].req_id = r - 1
                                      /\ delivered'[i].via = "async")})
                  = ntasks'
             /\ pc' = "respond"
     /\ (pc \in {"event_loop", "recv_timeout", "respond"} /\ pc' = "ready")
          => Undelivered = {}]_vars

\* The first request set a deadline; the timeout woke the script, which
\* from the reply handler cleared the deadline and spawned an operation;
\* event_loop delivered its reply too and only then returned.
C20_Witness ==
  /\ pc = "ready"
  /\ ntimeouts = 1
  /\ ~timeout_due.is_some
  /\ Len(ops) = 2
  /\ ops[1].is_sync
  /\ ~ops[2].is_sync
  /\ RepliesFor(1, "async") # {}
  /\ ntasks = 0

====
